---- MODULE Spec2Model ----
(***************************************************************************)
(* Model of src/task_manager.py: the Task record and the TaskManager store. *)
(*                                                                         *)
(* Strings are sequences of one-character strings, so that str.lower() and *)
(* the substring test `in` are computed character by character.            *)
(* A Task's id is id(self), the address of the object: an address is free  *)
(* for a new object as soon as no live object occupies it.                 *)
(* created_at (datetime.now()) is not modelled: no operation reads it.     *)
(***************************************************************************)
EXTENDS Integers, Sequences, FiniteSets, TLC

VARIABLES tasks, retired, op, arg, ret, prev

vars == <<tasks, retired, op, arg, ret, prev>>

\* ------------------------------------------------------------------ bounds
\* Largest number of tasks the store holds in the model.
MaxTasks == 2

\* Number of object addresses id() can return in the model.
NumAddr == 2

Addr == 1..NumAddr

\* ----------------------------------------------------------------- strings
UpperCase == <<"A","B","C","D","E","F","G","H","I","J","K","L","M",
               "N","O","P","Q","R","S","T","U","V","W","X","Y","Z">>

LowerCase == <<"a","b","c","d","e","f","g","h","i","j","k","l","m",
               "n","o","p","q","r","s","t","u","v","w","x","y","z">>

Letters == { UpperCase[i] : i \in 1..Len(UpperCase) } \cup
           { LowerCase[i] : i \in 1..Len(LowerCase) }

\* The lowercase form of each letter; a lowercase letter is its own.
LowerOf ==
    [c \in Letters |->
        IF \E i \in 1..Len(UpperCase) : UpperCase[i] = c
        THEN LowerCase[CHOOSE i \in 1..Len(UpperCase) : UpperCase[i] = c]
        ELSE c]

LowerChar(c) == IF c \in Letters THEN LowerOf[c] ELSE c

\* str.lower()
lower(s) == [i \in 1..Len(s) |-> LowerChar(s[i])]

\* Python's `needle in hay` on strings: needle occurs as a contiguous run.
StrIn(needle, hay) ==
    \E i \in 0..(Len(hay) - Len(needle)) :
        SubSeq(hay, i + 1, i + Len(needle)) = needle

\* The list literal ["high", "medium", "low"] of add_task.
ValidPrioritiesMutUrgent ==
    { <<"h","i","g","h">>, <<"m","e","d","i","u","m">>, <<"l","o","w">>,
      <<"u","r","g","e","n","t">> }

ValidPriorities ==
    { <<"h","i","g","h">>, <<"m","e","d","i","u","m">>, <<"l","o","w">> }

\* ------------------------------------------------------------------ inputs
\* Arguments the caller passes to add_task: (title, description, priority).
AddInputs ==
    { [title |-> <<"A","b">>, description |-> <<>>,
       priority |-> <<"H","I","G","H">>],
      [title |-> <<"b">>, description |-> <<"x","A">>,
       priority |-> <<"l","o","w">>],
      [title |-> <<>>, description |-> <<"a","B">>,
       priority |-> <<"M","e","d","i","u","m">>],
      [title |-> <<"A","b">>, description |-> <<>>,
       priority |-> <<"u","r","g","e","n","t">>],
      [title |-> <<"b">>, description |-> <<>>,
       priority |-> <<>>] }

\* Arguments the caller passes to filter_by_priority.
FilterInputs ==
    { <<"H","i","G","h">>, <<"l","o","w">>, <<"m","e","d","i","u","m">>,
      <<"U","r","g","e","n","t">>, <<>> }

\* Arguments the caller passes to search_by_keyword.
SearchInputs ==
    { <<>>, <<"A","B">>, <<"x","a">>, <<"B">>, <<"b","a">> }

\* ------------------------------------------------------------------- Task
\* Task.__init__ run on the object at address self.
TaskMutRawPriority(self, title, description, priority) ==
    [id |-> self, title |-> title, description |-> description,
     priority |-> priority, completed |-> FALSE]

TaskMutSwapText(self, title, description, priority) ==
    [id |-> self, title |-> description, description |-> title,
     priority |-> lower(priority), completed |-> FALSE]

Task(self, title, description, priority) ==
    [id |-> self, title |-> title, description |-> description,
     priority |-> lower(priority), completed |-> FALSE]

\* Task.mark_complete
Task_mark_completeMutToggle(t) == [t EXCEPT !.completed = ~t.completed]

Task_mark_complete(t) == [t EXCEPT !.completed = TRUE]

\* ------------------------------------------------------------ list helpers
\* list.append
appendMutFront(l, t) == <<t>> \o l

append(l, t) == Append(l, t)

\* list.pop(i), with i counted from 1
popMutLast(l, i) == SubSeq(l, 1, Len(l) - 1)

pop(l, i) == SubSeq(l, 1, i - 1) \o SubSeq(l, i + 1, Len(l))

\* The loop `for task in self.tasks: if id(task) == task_id`: the position
\* of the first task with that id, 0 when the loop runs to its end.
findMutLast(ts, task_id) ==
    IF \E i \in 1..Len(ts) : ts[i].id = task_id
    THEN CHOOSE i \in 1..Len(ts) :
           /\ ts[i].id = task_id
           /\ \A j \in 1..(i - 1) : ts[j].id # task_id
    ELSE Len(ts)

find(ts, task_id) ==
    IF \E i \in 1..Len(ts) : ts[i].id = task_id
    THEN CHOOSE i \in 1..Len(ts) :
           /\ ts[i].id = task_id
           /\ \A j \in 1..(i - 1) : ts[j].id # task_id
    ELSE 0

\* Addresses occupied by the tasks the store holds.
HeldIds(ts) == { ts[i].id : i \in 1..Len(ts) }

\* ---------------------------------------------------------------- queries
RECURSIVE filter_by_priorityMutCase(_, _)
filter_by_priorityMutCase(ts, priority) ==
    IF ts = <<>> THEN <<>>
    ELSE IF Head(ts).priority = priority
         THEN <<Head(ts)>> \o filter_by_priorityMutCase(Tail(ts), priority)
         ELSE filter_by_priorityMutCase(Tail(ts), priority)

\* [t for t in self.tasks if t.priority == priority.lower()]
RECURSIVE filter_by_priority(_, _)
filter_by_priority(ts, priority) ==
    IF ts = <<>> THEN <<>>
    ELSE IF Head(ts).priority = lower(priority)
         THEN <<Head(ts)>> \o filter_by_priority(Tail(ts), priority)
         ELSE filter_by_priority(Tail(ts), priority)

RECURSIVE search_by_keywordMutAnd(_, _)
search_by_keywordMutAnd(ts, keyword) ==
    IF ts = <<>> THEN <<>>
    ELSE IF /\ StrIn(lower(keyword), lower(Head(ts).title))
            /\ StrIn(lower(keyword), lower(Head(ts).description))
         THEN <<Head(ts)>> \o search_by_keywordMutAnd(Tail(ts), keyword)
         ELSE search_by_keywordMutAnd(Tail(ts), keyword)

\* [t for t in self.tasks
\*    if keyword_lower in t.title.lower() or keyword_lower in t.description.lower()]
RECURSIVE search_by_keyword(_, _)
search_by_keyword(ts, keyword) ==
    IF ts = <<>> THEN <<>>
    ELSE IF \/ StrIn(lower(keyword), lower(Head(ts).title))
            \/ StrIn(lower(keyword), lower(Head(ts).description))
         THEN <<Head(ts)>> \o search_by_keyword(Tail(ts), keyword)
         ELSE search_by_keyword(Tail(ts), keyword)

\* list_all_tasks: return self.tasks
list_all_tasks(ts) == ts

\* ----------------------------------------------------------- return values
Returned(v) == [error |-> "none", value |-> v]

Raised(e) == [error |-> e, value |-> <<>>]

\* ------------------------------------------------------------------- state
\* TaskManager.__init__: self.tasks = []
Init ==
    /\ tasks = <<>>
    /\ retired = {}
    /\ op = "__init__"
    /\ arg = <<>>
    /\ ret = Returned(<<>>)
    /\ prev = <<>>

\* ----------------------------------------------------------------- actions
\* add_task with a priority the validation rejects: ValueError, no Task built.
AddTaskRejected(in) ==
    /\ lower(in.priority) \notin ValidPriorities
    /\ op' = "add_task"
    /\ arg' = in
    /\ prev' = tasks
    /\ ret' = Raised("ValueError")
    /\ UNCHANGED <<tasks, retired>>

\* add_task with a priority the validation accepts: the new Task object is
\* placed at an address no held task occupies.
AddTaskAccepted(in) ==
    /\ lower(in.priority) \in ValidPriorities
    /\ Len(tasks) < MaxTasks
    /\ \E self \in Addr \ HeldIds(tasks) :
         LET task == Task(self, in.title, in.description, in.priority)
         IN /\ tasks' = append(tasks, task)
            /\ ret' = Returned(task)
    /\ op' = "add_task"
    /\ arg' = in
    /\ prev' = tasks
    /\ UNCHANGED retired

ListAllTasks ==
    /\ op' = "list_all_tasks"
    /\ arg' = <<>>
    /\ prev' = tasks
    /\ ret' = Returned(list_all_tasks(tasks))
    /\ UNCHANGED <<tasks, retired>>

MarkComplete(task_id) ==
    /\ op' = "mark_complete"
    /\ arg' = task_id
    /\ prev' = tasks
    /\ LET i == find(tasks, task_id)
       IN IF i # 0
          THEN /\ tasks' = [tasks EXCEPT ![i] = Task_mark_complete(tasks[i])]
               /\ ret' = Returned(TRUE)
          ELSE /\ tasks' = tasks
               /\ ret' = Returned(FALSE)
    /\ UNCHANGED retired

DeleteTask(task_id) ==
    /\ op' = "delete_task"
    /\ arg' = task_id
    /\ prev' = tasks
    /\ LET i == find(tasks, task_id)
       IN IF i # 0
          THEN /\ tasks' = pop(tasks, i)
               /\ retired' = retired \cup {tasks[i].id}
               /\ ret' = Returned(TRUE)
          ELSE /\ tasks' = tasks
               /\ retired' = retired
               /\ ret' = Returned(FALSE)

FilterByPriority(priority) ==
    /\ op' = "filter_by_priority"
    /\ arg' = priority
    /\ prev' = tasks
    /\ ret' = Returned(filter_by_priority(tasks, priority))
    /\ UNCHANGED <<tasks, retired>>

SearchByKeyword(keyword) ==
    /\ op' = "search_by_keyword"
    /\ arg' = keyword
    /\ prev' = tasks
    /\ ret' = Returned(search_by_keyword(tasks, keyword))
    /\ UNCHANGED <<tasks, retired>>

Next ==
    \/ \E in \in AddInputs : AddTaskRejected(in)
    \/ \E in \in AddInputs : AddTaskAccepted(in)
    \/ ListAllTasks
    \/ \E task_id \in Addr : MarkComplete(task_id)
    \/ \E task_id \in Addr : DeleteTask(task_id)
    \/ \E priority \in FilterInputs : FilterByPriority(priority)
    \/ \E keyword \in SearchInputs : SearchByKeyword(keyword)

Spec == Init /\ [][Next]_vars

\* ------------------------------------------------- vocabulary of the claims
\* Two strings are equal when case is ignored.
SameTextIgnoringCase(a, b) ==
    /\ Len(a) = Len(b)
    /\ \A i \in 1..Len(a) : LowerChar(a[i]) = LowerChar(b[i])

\* p is high, medium or low in some casing.
RecognisedPriority(p) ==
    \/ SameTextIgnoringCase(p, <<"h","i","g","h">>)
    \/ SameTextIgnoringCase(p, <<"m","e","d","i","u","m">>)
    \/ SameTextIgnoringCase(p, <<"l","o","w">>)

\* k occurs in hay as a contiguous run of characters when case is ignored.
ContainsIgnoringCase(hay, k) ==
    \E off \in 0..(Len(hay) - Len(k)) :
        \A j \in 1..Len(k) : LowerChar(hay[off + j]) = LowerChar(k[j])

\* r lists exactly the elements of ts at the positions S, in increasing position.
ListsInOrder(r, ts, S) ==
    /\ Len(r) = Cardinality(S)
    /\ \A k \in 1..Len(r) :
         r[k] = ts[CHOOSE i \in S : Cardinality({ j \in S : j <= i }) = k]

AddSucceeded == op = "add_task" /\ ret.error = "none"

\* -------------------------------------------------------------------- C1
\* C1: the id given to a newly added task differs from the id of every task
\* the store holds or has held before (deleted ones included), and the ids of
\* the held tasks are pairwise distinct.
C1_IdNeverReused ==
    /\ AddSucceeded => ret.value.id \notin (HeldIds(prev) \cup retired)
    /\ \A i, j \in 1..Len(tasks) : tasks[i].id = tasks[j].id => i = j

\* -------------------------------------------------------------------- C2
\* C2: add_task with a priority that is not high, medium or low in any casing
\* fails with the invalid-priority error and leaves the collection as it was.
C2_InvalidPriorityRejected ==
    (op = "add_task" /\ ~RecognisedPriority(arg.priority))
        => (ret.error = "ValueError" /\ tasks = prev)

C2_Witness ==
    /\ op = "add_task"
    /\ ~RecognisedPriority(arg.priority)
    /\ ret.error = "ValueError"
    /\ Len(prev) >= 1

\* -------------------------------------------------------------------- C3
\* C3: after a successful add_task on a store of n tasks, list_all_tasks has
\* n+1 tasks, the new task is last and not completed, and the first n tasks
\* are the old ones in the old order.
C3_AddAppendsLast ==
    AddSucceeded =>
        /\ Len(list_all_tasks(tasks)) = Len(prev) + 1
        /\ list_all_tasks(tasks)[Len(prev) + 1] = ret.value
        /\ ret.value.completed = FALSE
        /\ \A i \in 1..Len(prev) : list_all_tasks(tasks)[i] = prev[i]

C3_Witness == AddSucceeded /\ Len(prev) >= 1 /\ prev[1].completed

C5_UnknownIdIsNoOp ==
    (op \in {"mark_complete", "delete_task"} /\ arg \notin HeldIds(prev))
        => (ret = Returned(FALSE) /\ tasks = prev)

C5_Witness ==
    /\ op = "delete_task"
    /\ arg \notin HeldIds(prev)
    /\ Len(prev) >= 1
    /\ ret.value = FALSE

\* -------------------------------------------------------------------- C6
\* C6: mark_complete with the id of a held task returns true, sets that
\* task's completed flag and changes nothing else; on a task that is already
\* completed it returns true and changes nothing at all.
C6_MarkCompleteIdempotent ==
    (op = "mark_complete" /\ arg \in HeldIds(prev)) =>
        /\ ret = Returned(TRUE)
        /\ Len(tasks) = Len(prev)
        /\ \A i \in 1..Len(prev) :
             IF prev[i].id = arg
             THEN tasks[i] = [prev[i] EXCEPT !.completed = TRUE]
             ELSE tasks[i] = prev[i]
        /\ (\A i \in 1..Len(prev) : prev[i].id = arg => prev[i].completed)
             => tasks = prev

C6_Witness ==
    /\ op = "mark_complete"
    /\ Len(prev) >= 2
    /\ arg = prev[2].id
    /\ prev[2].completed
    /\ ~prev[1].completed
    /\ ret.value = TRUE

\* -------------------------------------------------------------------- C7
\* C7: add_task accepts every casing of high, medium and low and stores the
\* lowercased input, so every held task has priority high, medium or low.
C7_PriorityNormalised ==
    /\ \A i \in 1..Len(tasks) :
         tasks[i].priority \in { <<"h","i","g","h">>,
                                 <<"m","e","d","i","u","m">>,
                                 <<"l","o","w">> }
    /\ (op = "add_task" /\ RecognisedPriority(arg.priority)) => ret.error = "none"
    /\ AddSucceeded =>
         /\ SameTextIgnoringCase(tasks[Len(tasks)].priority, arg.priority)
         /\ \A j \in 1..Len(tasks[Len(tasks)].priority) :
              \E k \in 1..Len(LowerCase) :
                  tasks[Len(tasks)].priority[j] = LowerCase[k]

C7_Witness ==
    /\ AddSucceeded
    /\ arg.priority = <<"M","e","d","i","u","m">>
    /\ tasks[Len(tasks)].priority = <<"m","e","d","i","u","m">>

\* -------------------------------------------------------------------- C8
\* C8: filter_by_priority(p) returns exactly the held tasks whose stored
\* priority is lowercase(p), in insertion order; for an unrecognised p it
\* returns the empty list without an error; the store is unchanged.
C8_FilterExact ==
    op = "filter_by_priority" =>
        /\ ret.error = "none"
        /\ tasks = prev
        /\ ListsInOrder(ret.value, prev,
              { i \in 1..Len(prev) :
                  /\ SameTextIgnoringCase(prev[i].priority, arg)
                  /\ prev[i].priority = lower(prev[i].priority) })
        /\ ~RecognisedPriority(arg) => ret.value = <<>>

C8_Witness ==
    /\ op = "filter_by_priority"
    /\ arg = <<"H","i","G","h">>
    /\ Len(tasks) = 2
    /\ Len(ret.value) = 1
    /\ ret.value[1] = tasks[2]

\* -------------------------------------------------------------------- C9
\* C9: search_by_keyword(k) returns, in insertion order, exactly the held
\* tasks whose title or description contains k when case is ignored; the
\* empty keyword returns every held task; the store is unchanged.
C9_SearchExact ==
    op = "search_by_keyword" =>
        /\ ret.error = "none"
        /\ tasks = prev
        /\ ListsInOrder(ret.value, prev,
              { i \in 1..Len(prev) :
                  \/ ContainsIgnoringCase(prev[i].title, arg)
                  \/ ContainsIgnoringCase(prev[i].description, arg) })
        /\ arg = <<>> => ret.value = prev

C9_Witness ==
    /\ op = "search_by_keyword"
    /\ arg = <<"x","a">>
    /\ Len(tasks) = 2
    /\ Len(ret.value) = 1
    /\ ret.value[1] = tasks[2]

\* ------------------------------------------------------------------- C10
\* C10 as stated: every held task has a non-empty title.
C10_TitleNonEmpty == \A i \in 1..Len(tasks) : tasks[i].title # <<>>

\* C10 as amended: a held task's title is exactly the string given to the
\* add_task call that created it, the empty string included, and no
\* operation changes the title of a held task.
C10_TitleAsGiven ==
    /\ AddSucceeded => tasks[Len(tasks)].title = arg.title
    /\ op \notin {"__init__", "add_task"} =>
         \A i \in 1..Len(tasks) :
             \E j \in 1..Len(prev) :
                 prev[j].id = tasks[i].id /\ prev[j].title = tasks[i].title

C10_Witness ==
    /\ AddSucceeded
    /\ arg.title = <<>>
    /\ tasks[Len(tasks)].title = <<>>

====
